---- MODULE Spec2Model ----
(***************************************************************************)
(* One run of the dashboard script sf.py: the sidebar inputs, the date     *)
(* range gate, the fetch, and main() with its summary, SMA, RSI and        *)
(* historical table.  Prices are integers in an arbitrary unit; every      *)
(* derived number is an exact extended rational (finite, +/-inf or NaN),   *)
(* i.e. IEEE arithmetic without rounding.  Sequences are 1-based: the      *)
(* source's position p is element p + 1.                                   *)
(***************************************************************************)
EXTENDS Integers, Sequences, FiniteSets, TLC

VARIABLES
  pc,            \* position of the script run
  date_input,    \* value of the sidebar date widget
  show_rsi, show_sma,
  provider,      \* what the yfinance calls inside fetch_data did
  fetches,       \* number of fetch_data calls issued
  data, info,    \* what fetch_data returned
  curr_price, prev_price, price_change,
  metrics,       \* the values behind the metrics row
  sma, rsi,      \* the indicator series
  log_df,        \* the historical table
  rendered,      \* elements written to the page, in order
  exc            \* exception that ended the run, if any

vars == <<pc, date_input, show_rsi, show_sma, provider, fetches, data, info,
          curr_price, prev_price, price_change, metrics, sma, rsi, log_df,
          rendered, exc>>

\* ------------------------------------------------------------------ bounds
\* Short frames have 1..MaxShort rows; long frames have
\* SMAWindow-1 .. SMAWindow-1+LongExtra rows.
MaxShort == 16
LongExtra == 2
\* Close of the first row of every frame.
BasePrice == 500

\* ------------------------------------------------------- program constants
SMAWindow == 50
RSIWindow == 14
Million == 1000000

\* Python's None, for a string, for a number or record, and for a frame
None == "None"
NoValue == [k |-> "none"]
NoFrame == [none |-> TRUE, rows |-> <<>>]
SomeFrame(df) == [none |-> FALSE, rows |-> df]

\* ------------------------------------------------ extended rational numbers
Abs(x) == IF x < 0 THEN -x ELSE x
Sgn(x) == IF x < 0 THEN -1 ELSE 1

RECURSIVE GCD(_, _)
GCD(a, b) == IF b = 0 THEN a ELSE GCD(b, a % b)

NaN == [k |-> "nan"]
Inf(s) == [k |-> "inf", s |-> s]
\* n/d with d > 0, in lowest terms
Fin(n, d) ==
  LET g == GCD(Abs(n), d) IN [k |-> "fin", n |-> n \div g, d |-> d \div g]
FromInt(x) == [k |-> "fin", n |-> x, d |-> 1]

IsNaN(a) == a.k = "nan"
IsZero(a) == a.k = "fin" /\ a.n = 0
SignOf(a) == IF a.k = "inf" THEN a.s ELSE Sgn(a.n)

FNeg(a) ==
  CASE a.k = "nan" -> NaN
    [] a.k = "inf" -> Inf(-a.s)
    [] OTHER -> [k |-> "fin", n |-> -a.n, d |-> a.d]

FAdd(a, b) ==
  CASE a.k = "nan" \/ b.k = "nan" -> NaN
    [] a.k = "inf" /\ b.k = "inf" -> IF a.s = b.s THEN a ELSE NaN
    [] a.k = "inf" -> a
    [] b.k = "inf" -> b
    [] OTHER -> Fin(a.n * b.d + b.n * a.d, a.d * b.d)

FSub(a, b) == FAdd(a, FNeg(b))

\* a / b; zs is the sign a zero divisor carries (+0.0 or -0.0)
FDiv(a, b, zs) ==
  CASE a.k = "nan" \/ b.k = "nan" -> NaN
    [] a.k = "inf" /\ b.k = "inf" -> NaN
    [] a.k = "inf" -> Inf(a.s * (IF IsZero(b) THEN zs ELSE Sgn(b.n)))
    [] b.k = "inf" -> FromInt(0)
    [] IsZero(b) -> IF IsZero(a) THEN NaN ELSE Inf(Sgn(a.n) * zs)
    [] OTHER -> Fin(a.n * b.d * Sgn(b.n), a.d * Abs(b.n))

\* comparisons; any comparison with NaN is false
FLt(a, b) ==
  CASE a.k = "nan" \/ b.k = "nan" -> FALSE
    [] a.k = "inf" -> a.s = -1 /\ ~(b.k = "inf" /\ b.s = -1)
    [] b.k = "inf" -> b.s = 1
    [] OTHER -> a.n * b.d < b.n * a.d
FLe(a, b) == FLt(a, b) \/ (a.k # "nan" /\ a = b)

Min2(a, b) == IF a < b THEN a ELSE b
Max2(a, b) == IF a > b THEN a ELSE b

\* ----------------------------------------------------------- pandas pieces
CloseCol(df) == [i \in 1..Len(df) |-> FromInt(df[i].Close)]

\* Series.diff(): position 0 has no predecessor
Diff(s) == [i \in 1..Len(s) |-> IF i = 1 THEN NaN ELSE FSub(s[i], s[i-1])]

Positive(x) == FLt(FromInt(0), x)
Negative(x) == FLt(x, FromInt(0))

\* Series.where(cond, other) keeps the entries where cond holds and puts
\* other elsewhere; a comparison with NaN does not hold
\* s.where(s > 0, other)
WherePositive(s, other) ==
  [i \in 1..Len(s) |-> IF Positive(s[i]) THEN s[i] ELSE other]
\* s.where(s < 0, other)
WhereNegative(s, other) ==
  [i \in 1..Len(s) |-> IF Negative(s[i]) THEN s[i] ELSE other]

\* variant: the minus sign of line 128 left out
NegSeriesDropped(s) == s
\* unary minus on a series
NegSeries(s) == [i \in 1..Len(s) |-> FNeg(s[i])]

\* s[lo] + ... + s[hi]; the arithmetic is exact, so the order of the
\* additions is immaterial and the range is summed by halves
RECURSIVE SumRange(_, _, _)
SumRange(s, lo, hi) ==
  IF lo > hi THEN FromInt(0)
  ELSE IF lo = hi THEN s[lo]
  ELSE LET mid == (lo + hi) \div 2
       IN FAdd(SumRange(s, lo, mid), SumRange(s, mid + 1, hi))

\* variant: rolling(w, min_periods=1), a mean over the part of the window present
RollingMeanPartial(s, w) ==
  [i \in 1..Len(s) |->
     LET lo == Max2(1, i - w + 1) IN
     IF \E j \in lo..i : IsNaN(s[j])
     THEN NaN
     ELSE FDiv(SumRange(s, lo, i), FromInt(i - lo + 1), 1)]

\* Series.rolling(w).mean(): min_periods = w, so a value needs w non-NaN
\* observations in the trailing window
RollingMean(s, w) ==
  [i \in 1..Len(s) |->
     IF i < w \/ \E j \in (i - w + 1)..i : IsNaN(s[j])
     THEN NaN
     ELSE FDiv(SumRange(s, i - w + 1, i), FromInt(w), 1)]

RECURSIVE MaxOf(_, _, _)
MaxOf(df, lo, hi) ==
  IF lo = hi THEN df[lo].High
  ELSE LET mid == (lo + hi) \div 2
       IN Max2(MaxOf(df, lo, mid), MaxOf(df, mid + 1, hi))

RECURSIVE MinOf(_, _, _)
MinOf(df, lo, hi) ==
  IF lo = hi THEN df[lo].Low
  ELSE LET mid == (lo + hi) \div 2
       IN Min2(MinOf(df, lo, mid), MinOf(df, mid + 1, hi))

RECURSIVE VolumeSum(_, _, _)
VolumeSum(df, lo, hi) ==
  IF lo > hi THEN 0
  ELSE IF lo = hi THEN df[lo].Volume
  ELSE LET mid == (lo + hi) \div 2
       IN VolumeSum(df, lo, mid) + VolumeSum(df, mid + 1, hi)

\* variant: the last row left out of the sum
VolumeMeanShort(df) == Fin(VolumeSum(df, 1, Len(df) - 1), Len(df))
\* data['High'].max(), data['Low'].min(), data['Volume'].mean()
HighMax(df) == MaxOf(df, 1, Len(df))
LowMin(df) == MinOf(df, 1, Len(df))
VolumeMean(df) == Fin(VolumeSum(df, 1, Len(df)), Len(df))

\* int(x / 1e6) for x >= 0: truncation to whole millions
InMillions(x) == x.n \div (x.d * Million)

ComputeSMA(df) == RollingMean(CloseCol(df), SMAWindow)

\* variants: loss / gain, and a divisor of 1 put in for a zero mean loss
RelStrengthSwapped(g, l, zs) == FDiv(l, g, zs)
RelStrengthGuarded(g, l, zs) ==
  IF IsZero(l) THEN FDiv(g, FromInt(1), zs) ELSE FDiv(g, l, zs)
\* line 129: rs = gain / loss
RelStrength(g, l, zs) == FDiv(g, l, zs)

\* lines 126-130
ComputeRSI(df, zs) ==
  LET delta == Diff(CloseCol(df))
      gain == RollingMean(WherePositive(delta, FromInt(0)), RSIWindow)
      loss == RollingMean(NegSeries(WhereNegative(delta, FromInt(0))), RSIWindow)
      rs == [i \in 1..Len(df) |-> RelStrength(gain[i], loss[i], zs)]
  IN [i \in 1..Len(df) |->
        FSub(FromInt(100), FDiv(FromInt(100), FAdd(FromInt(1), rs[i]), 1))]

\* DatetimeIndex.strftime("%Y-%m-%d"): a timestamp becomes a string
Strftime(day) == <<"%Y-%m-%d", day>>

\* data.sort_index(ascending=False).copy() with the index reformatted
SortDescending(df) == [i \in 1..Len(df) |-> df[Len(df) + 1 - i]]
FormatIndex(df) == [i \in 1..Len(df) |-> [df[i] EXCEPT !.Date = Strftime(@)]]
HistoricalTable(df) == FormatIndex(SortDescending(df))

\* ---------------------------------------------------- what the provider returns
Steps == {-2, 0, 1}

\* close moves by d1 per row up to row k and by d2 per row after it
CloseAt(i, k, d1, d2) == BasePrice + d1 * (Min2(i, k) - 1) + d2 * Max2(i - k, 0)

Frame(n, k, d1, d2) ==
  [i \in 1..n |->
     [Date   |-> i,
      Open   |-> CloseAt(Max2(i - 1, 1), k, d1, d2),
      High   |-> CloseAt(i, k, d1, d2) + 1 + (i % 2),
      Low    |-> CloseAt(i, k, d1, d2) - 1 - (i % 3),
      Close  |-> CloseAt(i, k, d1, d2),
      Volume |-> 1200000 + 700000 * (i % 3)]]

\* two rows: closes 10,11; highs 12,13; lows 9,10; volumes 100,200
ExampleFrame ==
  <<[Date |-> 1, Open |-> 10, High |-> 12, Low |-> 9, Close |-> 10, Volume |-> 100],
    [Date |-> 2, Open |-> 10, High |-> 13, Low |-> 10, Close |-> 11, Volume |-> 200]>>

FrameLens == (1..MaxShort) \cup ((SMAWindow - 1)..(SMAWindow - 1 + LongExtra))

Frames ==
  {Frame(n, k, d1, d2) :
     n \in FrameLens, k \in 1..MaxShort, d1 \in Steps, d2 \in Steps}
  \cup {ExampleFrame}

\* the provider raises (network failure, unknown ticker), or history()
\* returns a frame, possibly an empty one
ProviderOutcomes ==
  {[raises |-> TRUE, df |-> <<>>]} \cup
  {[raises |-> FALSE, df |-> f] : f \in Frames \cup {<<>>}}

\* the widget's value, by what line 42 looks at: a complete range, a range
\* with only its start picked, an empty range, or a single date (no tuple)
SingleDate == [tuple |-> FALSE, len |-> -1]
DateInputs == {[tuple |-> TRUE, len |-> 2], [tuple |-> TRUE, len |-> 1],
               [tuple |-> TRUE, len |-> 0], SingleDate}

\* ------------------------------------------------------------ the script run
\* line 45 and line 69
Notice == "info: Select complete date range"
ErrorBox == "error: Data could not be retrieved"

Init ==
  /\ pc = "sidebar"
  /\ date_input = SingleDate
  /\ show_rsi = FALSE /\ show_sma = FALSE
  /\ provider = None
  /\ fetches = 0
  /\ data = NoFrame /\ info = None
  /\ curr_price = NoValue /\ prev_price = NoValue /\ price_change = NoValue
  /\ metrics = NoValue
  /\ sma = <<>> /\ rsi = <<>>
  /\ log_df = <<>>
  /\ rendered = <<>>
  /\ exc = None

\* lines 31-40: the sidebar widgets up to the date range
SidebarInputs ==
  /\ pc = "sidebar"
  /\ \E v \in DateInputs : date_input' = v
  /\ pc' = "date_check"
  /\ UNCHANGED <<show_rsi, show_sma, provider, fetches, data, info, curr_price,
                 prev_price, price_change, metrics, sma, rsi, log_df, rendered, exc>>

\* variant: the length test left out
AnyTuple(v) == v.tuple
\* line 42: isinstance(date_input, tuple) and len(date_input) == 2
CompleteRange(v) == v.tuple /\ v.len = 2

\* lines 42-46: unpack the range, or show the notice and st.stop()
DateCheck ==
  /\ pc = "date_check"
  /\ IF CompleteRange(date_input)
     THEN pc' = "toggles" /\ rendered' = rendered
     ELSE /\ rendered' = Append(rendered, Notice)
          /\ pc' = "stopped"
  /\ UNCHANGED <<date_input, show_rsi, show_sma, provider, fetches, data, info,
                 curr_price, prev_price, price_change, metrics, sma, rsi, log_df, exc>>

\* lines 48-49: the two checkboxes
Toggles ==
  /\ pc = "toggles"
  /\ show_rsi' \in BOOLEAN
  /\ show_sma' \in BOOLEAN
  /\ pc' = "fetch"
  /\ UNCHANGED <<date_input, provider, fetches, data, info, curr_price, prev_price,
                 price_change, metrics, sma, rsi, log_df, rendered, exc>>

\* variant: the df.empty test left out
FetchResultNoEmptyCheck(outcome) ==
  IF outcome.raises THEN [data |-> NoFrame, info |-> None]
  ELSE [data |-> SomeFrame(outcome.df), info |-> "info"]
\* lines 53-62: what fetch_data returns for what the provider did
FetchResult(outcome) ==
  IF outcome.raises THEN [data |-> NoFrame, info |-> None]            \* except:
  ELSE IF Len(outcome.df) = 0 THEN [data |-> NoFrame, info |-> None]  \* df.empty
  ELSE [data |-> SomeFrame(outcome.df), info |-> "info"]

\* line 66 with lines 52-62: the call of fetch_data
FetchData ==
  /\ pc = "fetch"
  /\ \E outcome \in ProviderOutcomes :
       /\ provider' = (IF outcome.raises THEN "raises"
                       ELSE IF Len(outcome.df) = 0 THEN "empty" ELSE "frame")
       /\ data' = FetchResult(outcome).data
       /\ info' = FetchResult(outcome).info
  /\ fetches' = fetches + 1
  /\ pc' = "guard"
  /\ UNCHANGED <<date_input, show_rsi, show_sma, curr_price, prev_price,
                 price_change, metrics, sma, rsi, log_df, rendered, exc>>

\* line 68: data is None or info is None
NoData(d, inf) == d.none \/ inf = None

\* lines 68-70: the error state
MainGuard ==
  /\ pc = "guard"
  /\ IF NoData(data, info)
     THEN /\ rendered' = Append(rendered, ErrorBox)
          /\ pc' = "done"
     ELSE pc' = "prices" /\ rendered' = rendered
  /\ UNCHANGED <<date_input, show_rsi, show_sma, provider, fetches, data, info,
                 curr_price, prev_price, price_change, metrics, sma, rsi, log_df, exc>>

\* Series.iloc[-p] on a series of n rows: out of bounds raises IndexError
IndexError == [k |-> "IndexError"]
ILocFromEnd(s, p) == IF p > Len(s) THEN IndexError ELSE s[Len(s) + 1 - p]

\* lines 73-75: latest close, previous close, change
PriceCalc ==
  /\ pc = "prices"
  /\ LET c == ILocFromEnd(CloseCol(data.rows), 1)
         p == ILocFromEnd(CloseCol(data.rows), 2)
     IN IF c = IndexError \/ p = IndexError
        THEN /\ exc' = "IndexError"
             /\ pc' = "failed"
             /\ curr_price' = (IF c = IndexError THEN curr_price ELSE c)
             /\ UNCHANGED <<prev_price, price_change>>
        ELSE /\ curr_price' = c
             /\ prev_price' = p
             /\ price_change' = FSub(c, p)
             /\ pc' = "metrics"
             /\ exc' = exc
  /\ UNCHANGED <<date_input, show_rsi, show_sma, provider, fetches, data, info,
                 metrics, sma, rsi, log_df, rendered>>

\* lines 82-85: the values of the four metrics
MetricsRow(df, cp, ch) ==
  [latest       |-> cp,
   change       |-> ch,
   high         |-> HighMax(df),
   low          |-> LowMin(df),
   mean_volume  |-> VolumeMean(df),
   volume_label |-> InMillions(VolumeMean(df))]

\* lines 77-85: title and metrics row
Metrics ==
  /\ pc = "metrics"
  /\ metrics' = MetricsRow(data.rows, curr_price, price_change)
  /\ rendered' = rendered \o <<"title", "metrics">>
  /\ pc' = "chart"
  /\ UNCHANGED <<date_input, show_rsi, show_sma, provider, fetches, data, info,
                 curr_price, prev_price, price_change, sma, rsi, log_df, exc>>

\* lines 94-120: candlestick chart, with the SMA trace when asked for
PriceChart ==
  /\ pc = "chart"
  /\ IF show_sma
     THEN /\ sma' = ComputeSMA(data.rows)
          /\ rendered' = rendered \o <<"candlestick", "sma_trace">>
     ELSE /\ sma' = sma
          /\ rendered' = Append(rendered, "candlestick")
  /\ pc' = "rsi"
  /\ UNCHANGED <<date_input, show_rsi, show_sma, provider, fetches, data, info,
                 curr_price, prev_price, price_change, metrics, rsi, log_df, exc>>

\* lines 123-144: the RSI chart when asked for.  The zeros of the loss
\* series come out of a negation (line 128), so a zero mean loss may carry
\* either sign.
RSISection ==
  /\ pc = "rsi"
  /\ IF show_rsi
     THEN /\ \E zs \in {1, -1} : rsi' = ComputeRSI(data.rows, zs)
          /\ rendered' = Append(rendered, "rsi_chart")
     ELSE rsi' = rsi /\ rendered' = rendered
  /\ pc' = "volume"
  /\ UNCHANGED <<date_input, show_rsi, show_sma, provider, fetches, data, info,
                 curr_price, prev_price, price_change, metrics, sma, log_df, exc>>

\* lines 147-168: volume chart and the company info tab
VolumeAndInfo ==
  /\ pc = "volume"
  /\ rendered' = rendered \o <<"volume_chart", "company_info">>
  /\ pc' = "table"
  /\ UNCHANGED <<date_input, show_rsi, show_sma, provider, fetches, data, info,
                 curr_price, prev_price, price_change, metrics, sma, rsi, log_df, exc>>

\* variant: sort_index(ascending=False, inplace=True)
FrameSortedInPlace(df) == SortDescending(df)
\* line 174: sort_index() is not in place and .copy() detaches the result,
\* so the assignment of line 175 leaves the fetched frame as it was
FrameAfterTable(df) == df

\* lines 171-177: the historical table
HistoricalData ==
  /\ pc = "table"
  /\ log_df' = HistoricalTable(data.rows)
  /\ data' = SomeFrame(FrameAfterTable(data.rows))
  /\ rendered' = Append(rendered, "table")
  /\ pc' = "done"
  /\ UNCHANGED <<date_input, show_rsi, show_sma, provider, fetches, info,
                 curr_price, prev_price, price_change, metrics, sma, rsi, exc>>

Next ==
  \/ SidebarInputs
  \/ DateCheck
  \/ Toggles
  \/ FetchData
  \/ MainGuard
  \/ PriceCalc
  \/ Metrics
  \/ PriceChart
  \/ RSISection
  \/ VolumeAndInfo
  \/ HistoricalData

Spec == Init /\ [][Next]_vars

\* ------------------------------------------------------------- properties
Rows == data.rows
N == Len(data.rows)
CloseOf(i) == data.rows[i].Close

SummaryDone == ~data.none /\ pc \in {"chart", "rsi", "volume", "table", "done"}
ChartDone == ~data.none /\ pc \in {"rsi", "volume", "table", "done"}
RSIDone == ~data.none /\ pc \in {"volume", "table", "done"}
PastPrices == ~data.none /\ pc \notin {"sidebar", "date_check", "toggles", "fetch", "guard", "prices"}

\* sums taken from both ends inwards, independent of the model's own
RECURSIVE CloseSumFrom(_, _)
CloseSumFrom(lo, hi) ==
  IF lo > hi THEN 0
  ELSE IF lo = hi THEN CloseOf(lo)
  ELSE CloseOf(lo) + CloseOf(hi) + CloseSumFrom(lo + 1, hi - 1)
RECURSIVE VolumeSumFrom(_, _)
VolumeSumFrom(lo, hi) ==
  IF lo > hi THEN 0
  ELSE IF lo = hi THEN data.rows[lo].Volume
  ELSE data.rows[lo].Volume + data.rows[hi].Volume + VolumeSumFrom(lo + 1, hi - 1)

\* the value a equals the integer ratio p / q (q > 0)
IsRatio(a, p, q) == a.k = "fin" /\ a.n * q = p * a.d

\* C1: on a fetched series of exactly 1 point the summary step ends in the
\* explicit InsufficientDataError and in no other failure.
C1_SinglePointInsufficientData ==
  (PastPrices /\ N = 1) => (pc = "failed" /\ exc = "InsufficientDataError")

\* C2: for every series with at least 2 observations the summary is
\* latest = last close, change = last close - second-to-last close,
\* high = max of highs, low = min of lows, meanVolume = arithmetic mean of
\* the volumes; the two-row example gives 11, 1, 13, 9 and 150.
C2_SummaryValues ==
  (SummaryDone /\ N >= 2) =>
    /\ metrics.latest = FromInt(CloseOf(N))
    /\ metrics.change = FromInt(CloseOf(N) - CloseOf(N - 1))
    /\ \E i \in 1..N : Rows[i].High = metrics.high
    /\ \A i \in 1..N : Rows[i].High <= metrics.high
    /\ \E i \in 1..N : Rows[i].Low = metrics.low
    /\ \A i \in 1..N : Rows[i].Low >= metrics.low
    /\ IsRatio(metrics.mean_volume, VolumeSumFrom(1, N), N)
    /\ Rows = ExampleFrame =>
         /\ metrics.latest = FromInt(11) /\ metrics.change = FromInt(1)
         /\ metrics.high = 13 /\ metrics.low = 9
         /\ metrics.mean_volume = FromInt(150)

C2_Witness ==
  /\ SummaryDone /\ Rows = ExampleFrame
  /\ metrics.mean_volume = FromInt(150) /\ metrics.latest = FromInt(11)

\* C3: the SMA series has one entry per observation; entry at position p is
\* "no value" exactly when p < w - 1 and is otherwise the mean of the w
\* closes ending at p; a series shorter than w gives only "no value" entries
\* and no failure.
C3_SMAEntries ==
  (ChartDone /\ show_sma) =>
    /\ exc = None
    /\ Len(sma) = N
    /\ \A i \in 1..N :
         /\ IsNaN(sma[i]) <=> (i - 1 < SMAWindow - 1)
         /\ (i - 1 >= SMAWindow - 1) =>
              IsRatio(sma[i], CloseSumFrom(i - SMAWindow + 1, i), SMAWindow)
    /\ (N < SMAWindow) => \A i \in 1..N : IsNaN(sma[i])

C3_Witness ==
  /\ ChartDone /\ show_sma /\ N > SMAWindow
  /\ IsNaN(sma[SMAWindow - 1]) /\ ~IsNaN(sma[SMAWindow]) /\ sma[N] # sma[SMAWindow]

\* C4: wherever the RSI is defined it lies in [0, 100], also where the mean
\* loss is 0 and the mean gain is positive.
C4_RSIRange ==
  (RSIDone /\ show_rsi) =>
    \A i \in 1..N :
      ~IsNaN(rsi[i]) =>
        /\ rsi[i].k = "fin"
        /\ FLe(FromInt(0), rsi[i]) /\ FLe(rsi[i], FromInt(100))

C4_Witness ==
  /\ RSIDone /\ show_rsi
  /\ \E i \in 1..N : rsi[i] = FromInt(100)
  /\ \E i \in 1..N : FLt(FromInt(0), rsi[i]) /\ FLt(rsi[i], FromInt(100))

StrictlyRising == \A i \in 2..N : CloseOf(i) > CloseOf(i - 1)
StrictlyFalling == \A i \in 2..N : CloseOf(i) < CloseOf(i - 1)

\* C5: on a strictly rising close series the RSI at every position beyond
\* the 14-point window is exactly 100, on a strictly falling one exactly 0.
C5_MonotonicExtremes ==
  (RSIDone /\ show_rsi) =>
    /\ StrictlyRising => \A i \in (RSIWindow + 1)..N : rsi[i] = FromInt(100)
    /\ StrictlyFalling => \A i \in (RSIWindow + 1)..N : rsi[i] = FromInt(0)

C5_Witness ==
  /\ RSIDone /\ show_rsi /\ StrictlyRising /\ N > RSIWindow + 1
  /\ rsi[N] = FromInt(100)

\* C6: the RSI is "no value" at the first `window` positions 0..13, so the
\* first defined value is at position 14.
C6_FirstWindowNoValue ==
  (RSIDone /\ show_rsi) => \A i \in 1..Min2(N, RSIWindow) : IsNaN(rsi[i])

\* C7: when the provider raises or returns an empty frame, fetch_data
\* raises nothing and returns (None, None), and the run ends in the
\* "Data could not be retrieved" state with no metric, chart or table.
C7_FetchFailure ==
  (provider \in {"raises", "empty"}) =>
    /\ exc = None
    /\ data = NoFrame /\ info = None
    /\ pc \in {"guard", "done"}
    /\ rendered = (IF pc = "done" THEN <<ErrorBox>> ELSE <<>>)
    /\ metrics = NoValue /\ curr_price = NoValue /\ price_change = NoValue
    /\ sma = <<>> /\ rsi = <<>> /\ log_df = <<>>

C7_Witness ==
  /\ pc = "done" /\ provider = "empty" /\ rendered = <<ErrorBox>> /\ fetches = 1

FlatWindow(i) ==
  \A j \in (i - RSIWindow + 1)..i : j = 1 \/ CloseOf(j) = CloseOf(j - 1)

\* C9: where the closes are flat over a whole trailing 14-point window the
\* RSI is "no value", and nothing fails.
C9_FlatWindowNoValue ==
  (RSIDone /\ show_rsi) =>
    /\ exc = None
    /\ \A i \in RSIWindow..N : FlatWindow(i) => IsNaN(rsi[i])

C9_Witness ==
  /\ RSIDone /\ show_rsi
  /\ \E i \in RSIWindow..N : FlatWindow(i) /\ IsNaN(rsi[i])
  /\ \E i \in RSIWindow..N : ~IsNaN(rsi[i])

\* C10: fetch and rendering happen only after the date input was accepted
\* as a tuple of two dates; otherwise the run shows the notice and stops
\* with no fetch and nothing else rendered.
C10_DateGate ==
  /\ (fetches > 0 \/ \E i \in 1..Len(rendered) : rendered[i] # Notice) =>
       (date_input.tuple /\ date_input.len = 2)
  /\ (pc \notin {"sidebar", "date_check"} /\ ~(date_input.tuple /\ date_input.len = 2)) =>
       /\ pc = "stopped" /\ rendered = <<Notice>> /\ fetches = 0
       /\ data = NoFrame /\ metrics = NoValue /\ log_df = <<>>

C10_Witness ==
  /\ pc = "stopped" /\ date_input.tuple /\ date_input.len = 1
  /\ rendered = <<Notice>> /\ fetches = 0

====
